---------------------------- MODULE Spec2Model ----------------------------
(***************************************************************************)
(* A model of the pin-map locator: the text parser (services/parser.ts),   *)
(* the application state and its search/navigation handlers (App.tsx) and  *)
(* the viewport of the map component (components/PinMap.tsx).              *)
(*                                                                         *)
(* Strings are sequences of one-character strings, so that trim, split,    *)
(* includes, toLowerCase and parseFloat are computed character by          *)
(* character.  Numbers are exact fractions [n, d] extended with the three  *)
(* special values of a JavaScript number: d = 0 and n = 1 is Infinity,     *)
(* n = -1 is -Infinity, n = 0 is NaN.  The rounding of IEEE doubles and    *)
(* the sign of zero are not modelled.                                      *)
(*                                                                         *)
(* The state updates a handler makes are applied in one render (React 18   *)
(* batches them, also after an await), and the effects of that render run  *)
(* before the next event.  PinMap is mounted exactly while data is not     *)
(* null; its state is constructed on mount and lost on unmount.            *)
(*                                                                         *)
(* hist records what the properties need of the past: fresh (no event      *)
(* since the start), focused (the last event ran the center effect for a   *)
(* changed activePinId), last (what the last event was, for the events the *)
(* properties speak of: the end of a load, a cycle command, a pointer      *)
(* move, a resetView, a repeated focus on the id just focused), drag (the  *)
(* primary button went down over the map and no button went up and the     *)
(* pointer did not leave since),                                           *)
(* k (cycle commands since the query last changed, -1 when                 *)
(* something else intervened), latest (the file of the load requested last *)
(* while another load was awaiting its text, as long as nothing but ends   *)
(* of loads happened since; null otherwise), and the counters budget and   *)
(* loads that bound a run.                                                 *)
(***************************************************************************)
EXTENDS Integers, Sequences, FiniteSets, TLC

VARIABLES
    content,            \* parser check: the text handed to parseNailFile
    parsed,             \* parser check: null, or the outcome of parseNailFile
    data,               \* App: useState<ParseResult | null>
    error,              \* App: useState<string | null>
    searchQuery,        \* App: the search text
    searchMode,         \* App: "nail" | "net"
    activePinId,        \* App: the focus target handed to PinMap
    activeResultIndex,  \* App: the current match index, -1 = none selected
    pending,            \* App: the handleFileUpload calls awaiting file.text()
    zoom,               \* PinMap: useState(1)
    offset,             \* PinMap: useState({x: 0, y: 0})
    isDragging,         \* PinMap: useState(false)
    dragStart,          \* PinMap: useState({x: 0, y: 0})
    hist                \* history of the run, see above

appVars == <<data, error, searchQuery, searchMode, activePinId, activeResultIndex, pending>>
viewVars == <<zoom, offset, isDragging, dragStart>>
parseVars == <<content, parsed>>
vars == <<content, parsed, data, error, searchQuery, searchMode, activePinId,
          activeResultIndex, pending, zoom, offset, isDragging, dragStart, hist>>

(***************************************************************************)
(* A value that may be null is a sequence: <<>> for null, <<v>> for v.     *)
(***************************************************************************)
Null == <<>>

Some(v) == <<v>>

(***************************************************************************)
(* Numbers.                                                                *)
(***************************************************************************)
Abs(i) == IF i < 0 THEN -i ELSE i

Sign(i) == IF i < 0 THEN -1 ELSE IF i > 0 THEN 1 ELSE 0

RECURSIVE GCD(_, _)
GCD(a, b) == IF b = 0 THEN a ELSE GCD(b, a % b)

\* the number n/d in lowest terms with d >= 0; d = 0 gives Infinity, -Infinity or NaN
Num(n, d) ==
    IF d = 0 THEN [n |-> Sign(n), d |-> 0]
    ELSE LET g == GCD(Abs(n), Abs(d))
             s == Sign(d)
         IN  [n |-> (s * n) \div g, d |-> Abs(d) \div g]

Int2Num(i) == [n |-> i, d |-> 1]

NaN == [n |-> 0, d |-> 0]

Infinity == [n |-> 1, d |-> 0]

isNaN(a) == a.d = 0 /\ a.n = 0

isFinite(a) == a.d # 0

NumNeg(a) == [n |-> -a.n, d |-> a.d]

\* a + b; two infinities of one sign add to that infinity
NumAdd(a, b) ==
    IF a.d = 0 /\ b.d = 0
    THEN (IF a.n = b.n THEN a ELSE NaN)
    ELSE IF a.d = 0 THEN a
    ELSE IF b.d = 0 THEN b
    ELSE LET g == GCD(a.d, b.d)
         IN  Num(a.n * (b.d \div g) + b.n * (a.d \div g), (a.d \div g) * b.d)

NumSub(a, b) == NumAdd(a, NumNeg(b))

\* a * b, cancelling across before multiplying
NumMul(a, b) ==
    IF a.d = 0 \/ b.d = 0
    THEN Num(a.n * b.n, 0)
    ELSE LET g1 == GCD(Abs(a.n), b.d)
             g2 == GCD(Abs(b.n), a.d)
         IN  Num((a.n \div g1) * (b.n \div g2), (a.d \div g2) * (b.d \div g1))

\* a / b; a finite number over zero is an infinity, zero over zero is NaN
NumDiv(a, b) ==
    IF isNaN(a) \/ isNaN(b) THEN NaN
    ELSE IF b.d = 0 THEN (IF a.d = 0 THEN NaN ELSE Int2Num(0))
    ELSE IF b.n = 0 THEN Num(a.n, 0)
    ELSE NumMul(a, [n |-> Sign(b.n) * b.d, d |-> Abs(b.n)])

\* a < b; every comparison with NaN is false
NumLt(a, b) ==
    /\ ~isNaN(a)
    /\ ~isNaN(b)
    /\ a # b
    /\ IF a.d = 0 THEN a.n = -1
       ELSE IF b.d = 0 THEN b.n = 1
       ELSE a.n * b.d < b.n * a.d

NumLe(a, b) == ~isNaN(a) /\ ~isNaN(b) /\ (a = b \/ NumLt(a, b))

\* Math.max(a, b) and Math.min(a, b): NaN when an argument is NaN
MathMax(a, b) == IF isNaN(a) \/ isNaN(b) THEN NaN ELSE IF NumLt(a, b) THEN b ELSE a

MathMin(a, b) == IF isNaN(a) \/ isNaN(b) THEN NaN ELSE IF NumLt(b, a) THEN b ELSE a

RECURSIVE Pow10(_)
Pow10(k) == IF k = 0 THEN 1 ELSE 10 * Pow10(k - 1)

(***************************************************************************)
(* Strings.                                                                *)
(***************************************************************************)
\* the characters String.prototype.trim and the regular expression \s treat as blank
WhiteSpace == {" ", "\t", "\r", "\n"}

Digits == {"0", "1", "2", "3", "4", "5", "6", "7", "8", "9"}

DigitVal(c) ==
    CASE c = "0" -> 0 [] c = "1" -> 1 [] c = "2" -> 2 [] c = "3" -> 3 [] c = "4" -> 4
      [] c = "5" -> 5 [] c = "6" -> 6 [] c = "7" -> 7 [] c = "8" -> 8 [] c = "9" -> 9

UpperCase == <<"A", "B", "C", "D", "E", "F", "G", "H", "I", "J", "K", "L", "M",
               "N", "O", "P", "Q", "R", "S", "T", "U", "V", "W", "X", "Y", "Z">>

LowerCase == <<"a", "b", "c", "d", "e", "f", "g", "h", "i", "j", "k", "l", "m",
               "n", "o", "p", "q", "r", "s", "t", "u", "v", "w", "x", "y", "z">>

LowerChar(c) ==
    IF \E i \in 1..26 : UpperCase[i] = c
    THEN LowerCase[CHOOSE i \in 1..26 : UpperCase[i] = c]
    ELSE c

RECURSIVE toLowerCase(_)
toLowerCase(s) ==
    IF s = <<>> THEN <<>> ELSE <<LowerChar(Head(s))>> \o toLowerCase(Tail(s))

\* s has pat at position i
StartsWithAt(s, pat, i) ==
    /\ i >= 1
    /\ i + Len(pat) - 1 <= Len(s)
    /\ SubSeq(s, i, i + Len(pat) - 1) = pat

startsWith(s, pat) == StartsWithAt(s, pat, 1)

\* the first position of pat in s, 0 when there is none
IndexOf(s, pat) ==
    LET hits == {i \in 1..(Len(s) + 1) : StartsWithAt(s, pat, i)}
    IN  IF hits = {} THEN 0 ELSE CHOOSE i \in hits : \A j \in hits : i <= j

includes(s, pat) == IndexOf(s, pat) # 0

\* the first position from i on of a character of s that is in set cs, 0 when none
FirstOf(s, cs, i) ==
    LET hits == {j \in i..Len(s) : s[j] \in cs}
    IN  IF hits = {} THEN 0 ELSE CHOOSE j \in hits : \A k \in hits : j <= k

\* the first position from i on of a character of s that is not in set cs,
\* Len(s) + 1 when none
FirstNotOf(s, cs, i) ==
    LET hits == {j \in i..Len(s) : s[j] \notin cs}
    IN  IF hits = {} THEN Len(s) + 1 ELSE CHOOSE j \in hits : \A k \in hits : j <= k

\* the last position of a character of s that is not in set cs, 0 when none
LastNotOf(s, cs) ==
    LET hits == {j \in 1..Len(s) : s[j] \notin cs}
    IN  IF hits = {} THEN 0 ELSE CHOOSE j \in hits : \A k \in hits : j >= k

TrimStart(s) == SubSeq(s, FirstNotOf(s, WhiteSpace, 1), Len(s))

TrimEnd(s) == SubSeq(s, 1, LastNotOf(s, WhiteSpace))

trim(s) == TrimEnd(TrimStart(s))

\* s.split(sep) for a one-character separator, from position i on
RECURSIVE SplitChar(_, _, _)
SplitChar(s, sep, i) ==
    LET j == FirstOf(s, {sep}, i)
    IN  IF j = 0 THEN <<SubSeq(s, i, Len(s))>>
        ELSE <<SubSeq(s, i, j - 1)>> \o SplitChar(s, sep, j + 1)

\* s.split(/\s+/) from position i on: every maximal run of blanks separates two pieces
RECURSIVE SplitBlanks(_, _)
SplitBlanks(s, i) ==
    LET j == FirstOf(s, WhiteSpace, i)
    IN  IF j = 0 THEN <<SubSeq(s, i, Len(s))>>
        ELSE <<SubSeq(s, i, j - 1)>> \o SplitBlanks(s, FirstNotOf(s, WhiteSpace, j))

\* parts.join(sep)
RECURSIVE Join(_, _)
Join(parts, sep) ==
    IF parts = <<>> THEN <<>>
    ELSE IF Len(parts) = 1 THEN parts[1]
    ELSE parts[1] \o sep \o Join(Tail(parts), sep)

\* s.replace(/[()]/g, '')
RECURSIVE StripParens(_)
StripParens(s) ==
    IF s = <<>> THEN <<>>
    ELSE IF Head(s) \in {"(", ")"} THEN StripParens(Tail(s))
    ELSE <<Head(s)>> \o StripParens(Tail(s))

\* the length of the run of digits of s that starts at position i
RECURSIVE DigitRun(_, _)
DigitRun(s, i) ==
    IF i <= Len(s) /\ s[i] \in Digits THEN 1 + DigitRun(s, i + 1) ELSE 0

\* the value of the digits s[i .. i + k - 1]
RECURSIVE DigitsVal(_, _, _)
DigitsVal(s, i, k) ==
    IF k = 0 THEN 0 ELSE 10 * DigitsVal(s, i, k - 1) + DigitVal(s[i + k - 1])

StrInfinity == <<"I", "n", "f", "i", "n", "i", "t", "y">>

\* the mantissa times 10 to the exponent written by the ne digits from position i
ScaleUp(mant, s, i, ne) ==
    IF ne = 0 THEN mant ELSE NumMul(mant, Int2Num(Pow10(DigitsVal(s, i, ne))))

ScaleDown(mant, s, i, ne) ==
    IF ne = 0 THEN mant ELSE NumDiv(mant, Int2Num(Pow10(DigitsVal(s, i, ne))))

\* the exponent part, if s has one at position q: e or E, a sign, digits
ParseExponent(s, q, mant) ==
    IF q < Len(s) /\ s[q] \in {"e", "E"}
    THEN IF s[q + 1] = "-" THEN ScaleDown(mant, s, q + 2, DigitRun(s, q + 2))
         ELSE IF s[q + 1] = "+" THEN ScaleUp(mant, s, q + 2, DigitRun(s, q + 2))
         ELSE ScaleUp(mant, s, q + 1, DigitRun(s, q + 1))
    ELSE mant

\* ni digits, a dot and nf digits
ParseFraction(s, ni, nf) ==
    IF ni + nf = 0 THEN NaN
    ELSE ParseExponent(s, ni + nf + 2,
                       Num(DigitsVal(s, 1, ni) * Pow10(nf) + DigitsVal(s, ni + 2, nf),
                           Pow10(nf)))

\* ni digits, then a fraction or not
ParseDecimal(s, ni) ==
    IF ni < Len(s) /\ s[ni + 1] = "."
    THEN ParseFraction(s, ni, DigitRun(s, ni + 2))
    ELSE IF ni = 0 THEN NaN
    ELSE ParseExponent(s, ni + 1, Int2Num(DigitsVal(s, 1, ni)))

ParseUnsigned(s) ==
    IF startsWith(s, StrInfinity) THEN Infinity ELSE ParseDecimal(s, DigitRun(s, 1))

ParseSigned(s) ==
    IF s # <<>> /\ Head(s) = "-" THEN NumNeg(ParseUnsigned(Tail(s)))
    ELSE IF s # <<>> /\ Head(s) = "+" THEN ParseUnsigned(Tail(s))
    ELSE ParseUnsigned(s)

\* parseFloat(s): the value of the longest prefix of s, after its leading blanks,
\* that is a decimal literal (sign, digits, fraction, exponent) or Infinity; NaN
\* when there is none
parseFloat(str) == ParseSigned(TrimStart(str))

(***************************************************************************)
(* services/parser.ts                                                      *)
(***************************************************************************)
StrMetric == <<"M", "e", "t", "r", "i", "c", " ", "u", "n", "i", "t", "s">>

StrImperial == <<"I", "m", "p", "e", "r", "i", "a", "l", " ", "u", "n", "i", "t", "s">>

StrTPin == <<"T", " ", "P", "I", "N">>

StrPIN == <<"P", "I", "N">>

StrNA == <<"N", "/", "A">>

\* the position after the run of blanks of s that starts at position i
SkipBlanks(s, i) == FirstNotOf(s, WhiteSpace, i)

\* \s+T\s+PIN matches s at position i
MarkerAt(s, i) ==
    LET j == SkipBlanks(s, i)
        k == SkipBlanks(s, j + 1)
    IN  /\ j > i
        /\ j <= Len(s)
        /\ s[j] = "T"
        /\ k > j + 1
        /\ StartsWithAt(s, StrPIN, k)

\* remaining.match(/^(.*?)\s+T\s+PIN/): the shortest prefix the marker follows,
\* as a one-element sequence holding capture group 1; <<>> when nothing matches
netNameMatch(remaining) ==
    LET hits == {p \in 0..Len(remaining) :
                    /\ MarkerAt(remaining, p + 1)
                    /\ \A i \in 1..p : remaining[i] \notin {"\n", "\r"}}
    IN  IF hits = {} THEN <<>>
        ELSE <<SubSeq(remaining, 1, CHOOSE p \in hits : \A r \in hits : p <= r)>>

\* remaining.split('T PIN')[1]: what lies between the first marker and the next
AfterTPin(remaining) ==
    LET from == IndexOf(remaining, StrTPin) + Len(StrTPin)
        rest == SubSeq(remaining, from, Len(remaining))
        next == IndexOf(rest, StrTPin)
    IN  IF next = 0 THEN rest ELSE SubSeq(rest, 1, next - 1)

\* the record pushed for a row split into parts (parts.length >= 7)
NailOf(parts) ==
    LET remaining == Join(SubSeq(parts, 8, Len(parts)), <<" ">>)
        m == netNameMatch(remaining)
    IN  [id |-> parts[1],
         x |-> parseFloat(parts[2]),
         y |-> parseFloat(parts[3]),
         type |-> parts[4],
         grid |-> parts[5],
         side |-> StripParens(parts[6]),
         netId |-> parts[7],
         netName |-> IF m # <<>> THEN m[1]
                     ELSE IF Len(parts) >= 8 /\ parts[8] # <<>> THEN parts[8]
                     ELSE StrNA,
         virtualPin |-> IF includes(remaining, StrTPin)
                        THEN trim(AfterTPin(remaining))
                        ELSE <<>>]

\* the nails one line adds: none, or the one record of an accepted row
RowNails(line) ==
    LET trimmed == trim(line)
        parts == SplitBlanks(trimmed, 1)
    IN  IF startsWith(trimmed, <<"$">>) /\ Len(parts) >= 7
        THEN LET nail == NailOf(parts)
             IN  IF ~isNaN(nail.x) /\ ~isNaN(nail.y) THEN <<nail>> ELSE <<>>
        ELSE <<>>

\* units after a line, given units before it
UnitsAfter(units, line) ==
    LET trimmed == trim(line)
    IN  IF includes(trimmed, StrImperial) THEN "Imperial"
        ELSE IF includes(trimmed, StrMetric) THEN "Metric"
        ELSE units

\* the characters of \w
WordChars ==
    Digits \cup {UpperCase[i] : i \in 1..26} \cup {LowerCase[i] : i \in 1..26} \cup {"_"}

\* the character of s at position i is in set cs
CharIn(s, i, cs) == i >= 1 /\ i <= Len(s) /\ s[i] \in cs

\* the characters of s at positions a..b are all in set cs
RunIn(s, a, b, cs) == \A k \in a..b : CharIn(s, k, cs)

\* \d{1,2}-\w+-\d{4} matches s from position i, its second hyphen at position g
\* (h is the position of the first hyphen)
DateAt(s, i, g) ==
    /\ CharIn(s, i, Digits)
    /\ CharIn(s, g, {"-"})
    /\ RunIn(s, g + 1, g + 4, Digits)
    /\ \E h \in {i + 1, i + 2} :
           /\ CharIn(s, h, {"-"})
           /\ RunIn(s, i, h - 1, Digits)
           /\ h + 1 < g
           /\ RunIn(s, h + 1, g - 1, WordChars)

\* \s+\d{2}:\d{2} matches s from position g + 5 and ends at position e
TimeAt(s, g, e) ==
    /\ CharIn(s, e - 2, {":"})
    /\ g + 5 < e - 4
    /\ RunIn(s, g + 5, e - 5, WhiteSpace)
    /\ RunIn(s, e - 4, e - 3, Digits)
    /\ RunIn(s, e - 1, e, Digits)

\* /\d{1,2}-\w+-\d{4}/.test(s)
dateTest(s) == \E i \in 1..Len(s) : \E g \in i..Len(s) : DateAt(s, i, g)

\* the matches <<start, end>> of /\d{1,2}-\w+-\d{4}\s+\d{2}:\d{2}/ in s; a start
\* has one end at most, since each repetition is delimited by the next character
DateTimeMatches(s) ==
    {m \in (1..Len(s)) \X (1..Len(s)) :
        /\ CharIn(s, m[1], Digits)
        /\ CharIn(s, m[2] - 2, {":"})
        /\ \E g \in m[1]..m[2] : DateAt(s, m[1], g) /\ TimeAt(s, g, m[2])}

\* s.match(/\d{1,2}-\w+-\d{4}\s+\d{2}:\d{2}/): the leftmost match as a
\* one-element sequence, <<>> when nothing matches
dateMatch(s) ==
    IF DateTimeMatches(s) = {} THEN <<>>
    ELSE <<SubSeq(s, (CHOOSE m \in DateTimeMatches(s) :
                         \A o \in DateTimeMatches(s) : m[1] <= o[1])[1],
                     (CHOOSE m \in DateTimeMatches(s) :
                         \A o \in DateTimeMatches(s) : m[1] <= o[1])[2])>>

\* date after a line, given date before it
DateAfter(date, line) ==
    LET trimmed == trim(line)
    IN  IF dateTest(trimmed) /\ dateMatch(trimmed) # <<>> THEN dateMatch(trimmed)[1]
        ELSE date

\* a scan that keeps the first date it finds
RECURSIVE ScanDate_FirstWins(_, _)
ScanDate_FirstWins(lines, date) ==
    IF lines = <<>> THEN date
    ELSE IF date # <<>> THEN date
    ELSE ScanDate_FirstWins(Tail(lines), DateAfter(date, Head(lines)))

RECURSIVE ScanDate(_, _)
ScanDate(lines, date) ==
    IF lines = <<>> THEN date ELSE ScanDate(Tail(lines), DateAfter(date, Head(lines)))

\* lines.forEach(...): the nails in line order
RECURSIVE ScanNails(_)
ScanNails(lines) ==
    IF lines = <<>> THEN <<>> ELSE RowNails(Head(lines)) \o ScanNails(Tail(lines))

RECURSIVE ScanUnits(_, _)
ScanUnits(lines, units) ==
    IF lines = <<>> THEN units ELSE ScanUnits(Tail(lines), UnitsAfter(units, Head(lines)))

\* a minimum that is the first element
MinOf_First(xs) == xs[1]

\* Math.min(...xs) and Math.max(...xs) of a non-empty sequence
RECURSIVE MinOf(_)
MinOf(xs) == IF Len(xs) = 1 THEN xs[1] ELSE MathMin(xs[1], MinOf(Tail(xs)))

RECURSIVE MaxOf(_)
MaxOf(xs) == IF Len(xs) = 1 THEN xs[1] ELSE MathMax(xs[1], MaxOf(Tail(xs)))

Xs(nails) == [i \in 1..Len(nails) |-> nails[i].x]

Ys(nails) == [i \in 1..Len(nails) |-> nails[i].y]

\* the thrown Error('No valid nail data found. ...')
NoDataError ==
    "No valid nail data found. Please ensure the file is in Tebo-ICT or compatible .asc format."

\* parseNailFile(content, fileName): a ParseResult, or the thrown error
parseNailFile(text, fileName) ==
    LET lines == SplitChar(text, "\n", 1)
        nails == ScanNails(lines)
    IN  IF Len(nails) = 0
        THEN [ok |-> FALSE, error |-> NoDataError]
        ELSE [ok |-> TRUE,
              nails |-> nails,
              metadata |-> [fileName |-> fileName,
                            totalNails |-> Len(nails),
                            units |-> ScanUnits(lines, "Unknown"),
                            date |-> ScanDate(lines, <<>>)],
              bounds |-> [minX |-> MinOf(Xs(nails)), maxX |-> MaxOf(Xs(nails)),
                          minY |-> MinOf(Ys(nails)), maxY |-> MaxOf(Ys(nails))]]

(***************************************************************************)
(* components/PinMap.tsx: the viewport.  The component is mounted while    *)
(* data is not null; its props are data and activePinId.                   *)
(***************************************************************************)
padding == 20

\* zoom limits of handleWheel: 0.05 and 100
ZoomMin == Num(5, 100)

ZoomMax == Int2Num(100)

\* Math.max(zoom, 10) of the center effect
FocusZoom == Int2Num(10)

\* the factors of the step buttons and of a wheel tick
ZoomInFactor == Num(15, 10)

ZoomOutFactor == Num(7, 10)

WheelOutFactor == Num(9, 10)

WheelInFactor == Num(11, 10)

DefaultZoom == Int2Num(1)

DefaultOffset == [x |-> Int2Num(0), y |-> Int2Num(0)]

width(d) == NumAdd(NumSub(d.bounds.maxX, d.bounds.minX), Int2Num(padding * 2))

height(d) == NumAdd(NumSub(d.bounds.maxY, d.bounds.minY), Int2Num(padding * 2))

viewBoxX(d) == NumSub(d.bounds.minX, Int2Num(padding))

viewBoxY(d) == NumSub(d.bounds.minY, Int2Num(padding))

centerX(d) == NumAdd(viewBoxX(d), NumDiv(width(d), Int2Num(2)))

centerY(d) == NumAdd(viewBoxY(d), NumDiv(height(d), Int2Num(2)))

\* nails.find(n => n.id === id): the index of the first nail with the id, 0 when none
find(nails, id) ==
    LET hits == {i \in 1..Len(nails) : nails[i].id = id}
    IN  IF hits = {} THEN 0 ELSE CHOOSE i \in hits : \A j \in hits : i <= j

\* the center effect with the zoom forced to 10 instead of Math.max(zoom, 10)
CenterOnPin_Force10(d, pinId, z, off) ==
    IF pinId # Null /\ pinId[1] # <<>> /\ find(d.nails, pinId[1]) # 0
    THEN LET pin == d.nails[find(d.nails, pinId[1])]
             targetZoom == FocusZoom
         IN  [zoom |-> targetZoom,
              offset |-> [x |-> NumSub(NumDiv(centerX(d), targetZoom), pin.x),
                          y |-> NumSub(NumDiv(centerY(d), targetZoom), pin.y)]]
    ELSE [zoom |-> z, offset |-> off]

\* the center effect without the test of line 50: a miss resets the view
CenterOnPin_MissResets(d, pinId, z, off) ==
    IF pinId # Null /\ pinId[1] # <<>>
    THEN IF find(d.nails, pinId[1]) # 0
         THEN LET pin == d.nails[find(d.nails, pinId[1])]
                  targetZoom == MathMax(z, FocusZoom)
              IN  [zoom |-> targetZoom,
                   offset |-> [x |-> NumSub(NumDiv(centerX(d), targetZoom), pin.x),
                               y |-> NumSub(NumDiv(centerY(d), targetZoom), pin.y)]]
         ELSE [zoom |-> DefaultZoom, offset |-> DefaultOffset]
    ELSE [zoom |-> z, offset |-> off]

\* a center effect that zooms in by a step beyond its target
CenterOnPin_ZoomsFurther(d, pinId, z, off) ==
    IF pinId # Null /\ pinId[1] # <<>> /\ find(d.nails, pinId[1]) # 0
    THEN LET pin == d.nails[find(d.nails, pinId[1])]
             targetZoom == NumMul(MathMax(z, FocusZoom), ZoomInFactor)
         IN  [zoom |-> targetZoom,
              offset |-> [x |-> NumSub(NumDiv(centerX(d), targetZoom), pin.x),
                          y |-> NumSub(NumDiv(centerY(d), targetZoom), pin.y)]]
    ELSE [zoom |-> z, offset |-> off]

\* the body of the center effect: the zoom and offset it leaves, given the props
\* d and pinId (null or an id) and the zoom and offset of the render it runs after
CenterOnPin(d, pinId, z, off) ==
    IF pinId # Null /\ pinId[1] # <<>> /\ find(d.nails, pinId[1]) # 0
    THEN LET pin == d.nails[find(d.nails, pinId[1])]
             targetZoom == MathMax(z, FocusZoom)
         IN  [zoom |-> targetZoom,
              offset |-> [x |-> NumSub(NumDiv(centerX(d), targetZoom), pin.x),
                          y |-> NumSub(NumDiv(centerY(d), targetZoom), pin.y)]]
    ELSE [zoom |-> z, offset |-> off]

\* the state of a PinMap that has just been constructed
FreshView(z, off, drag, start) ==
    /\ z = DefaultZoom
    /\ off = DefaultOffset
    /\ drag = FALSE
    /\ start = [x |-> 0, y |-> 0]

\* the history after an event that is no focus
Note == [hist EXCEPT !.fresh = FALSE, !.focused = FALSE, !.last = "none", !.latest = <<>>]

\* the history after a zoom or pan step, which is taken from the budget of the run
Spend ==
    [hist EXCEPT !.fresh = FALSE, !.focused = FALSE, !.last = "none", !.latest = <<>>,
                 !.budget = hist.budget - 1]

\* the + button: setZoom(z => z * 1.5)
ZoomInButton ==
    /\ data # Null
    /\ hist.budget > 0
    /\ zoom' = NumMul(zoom, ZoomInFactor)
    /\ hist' = Spend
    /\ UNCHANGED <<offset, isDragging, dragStart, appVars, parseVars>>

\* the - button: setZoom(z => z * 0.7)
ZoomOutButton ==
    /\ data # Null
    /\ hist.budget > 0
    /\ zoom' = NumMul(zoom, ZoomOutFactor)
    /\ hist' = Spend
    /\ UNCHANGED <<offset, isDragging, dragStart, appVars, parseVars>>

\* Math.min(Math.max(v, 0.05), 100)
Clamp(v) == MathMin(MathMax(v, ZoomMin), ZoomMax)

handleWheel(deltaY) ==
    /\ data # Null
    /\ hist.budget > 0
    /\ LET zoomFactor == IF deltaY > 0 THEN WheelOutFactor ELSE WheelInFactor
       IN  zoom' = Clamp(NumMul(zoom, zoomFactor))
    /\ hist' = Spend
    /\ UNCHANGED <<offset, isDragging, dragStart, appVars, parseVars>>

handleMouseDown(button, clientX, clientY) ==
    /\ data # Null
    /\ IF button = 0
       THEN /\ isDragging' = TRUE
            /\ dragStart' = [x |-> clientX, y |-> clientY]
       ELSE UNCHANGED <<isDragging, dragStart>>
    /\ hist' = [Note EXCEPT !.drag = (button = 0) \/ hist.drag]
    /\ UNCHANGED <<zoom, offset, appVars, parseVars>>

\* a move that pans by the screen delta itself
handleMouseMove_ScreenDelta(clientX, clientY) ==
    /\ data # Null
    /\ IF isDragging
       THEN /\ hist.budget > 0
            /\ offset' = [x |-> NumAdd(offset.x, Int2Num(clientX - dragStart.x)),
                          y |-> NumAdd(offset.y, Int2Num(clientY - dragStart.y))]
            /\ dragStart' = [x |-> clientX, y |-> clientY]
            /\ hist' = [Spend EXCEPT !.last = "move"]
       ELSE /\ UNCHANGED <<offset, dragStart>>
            /\ hist' = [Note EXCEPT !.last = "move"]
    /\ UNCHANGED <<zoom, isDragging, appVars, parseVars>>

handleMouseMove(clientX, clientY) ==
    /\ data # Null
    /\ IF isDragging
       THEN /\ hist.budget > 0
            /\ LET dx == NumDiv(Int2Num(clientX - dragStart.x), zoom)
                   dy == NumDiv(Int2Num(clientY - dragStart.y), zoom)
               IN  offset' = [x |-> NumAdd(offset.x, dx), y |-> NumAdd(offset.y, dy)]
            /\ dragStart' = [x |-> clientX, y |-> clientY]
            /\ hist' = [Spend EXCEPT !.last = "move"]
       ELSE /\ UNCHANGED <<offset, dragStart>>
            /\ hist' = [Note EXCEPT !.last = "move"]
    /\ UNCHANGED <<zoom, isDragging, appVars, parseVars>>

\* onMouseUp and onMouseLeave
handleMouseUp ==
    /\ data # Null
    /\ isDragging' = FALSE
    /\ hist' = [Note EXCEPT !.drag = FALSE]
    /\ UNCHANGED <<zoom, offset, dragStart, appVars, parseVars>>

\* a reset of the zoom alone
resetView_ZoomOnly ==
    /\ data # Null
    /\ zoom' = DefaultZoom
    /\ hist' = [Note EXCEPT !.last = "reset"]
    /\ UNCHANGED <<offset, isDragging, dragStart, appVars, parseVars>>

resetView ==
    /\ data # Null
    /\ zoom' = DefaultZoom
    /\ offset' = DefaultOffset
    /\ hist' = [Note EXCEPT !.last = "reset"]
    /\ UNCHANGED <<isDragging, dragStart, appVars, parseVars>>

\* the id handed over is the one focused by the event before, or by a run of
\* events that each handed over that same id
Refocus(pinId) == pinId # Null /\ (hist.focused \/ hist.last = "refocus")

\* the parent renders PinMap with another activePinId: the center effect runs
\* when the prop has changed, with the zoom of that render
SetActivePinId(pinId) ==
    /\ data # Null
    /\ activePinId' = pinId
    /\ IF pinId # activePinId
       THEN /\ zoom' = CenterOnPin(data[1], pinId, zoom, offset).zoom
            /\ offset' = CenterOnPin(data[1], pinId, zoom, offset).offset
            /\ hist' = [Note EXCEPT !.focused = TRUE]
       ELSE /\ UNCHANGED <<zoom, offset>>
            /\ hist' = [Note EXCEPT !.last = IF Refocus(pinId) THEN "refocus" ELSE "none"]
    /\ UNCHANGED <<isDragging, dragStart, data, error, searchQuery, searchMode,
                   activeResultIndex, pending, parseVars>>

(***************************************************************************)
(* The parser on its own: parseNailFile applied to every text of at most   *)
(* MaxLines lines drawn from LineMenu.                                     *)
(***************************************************************************)
MaxLines == 2

\* $A1 10.5 20.25 TP 3 (T) N100 GND T PIN 5
LineA ==
    <<"$", "A", "1", " ", "1", "0", ".", "5", " ", "2", "0", ".", "2", "5", " ", "T",
      "P", " ", "3", " ", "(", "T", ")", " ", "N", "1", "0", "0", " ", "G", "N", "D",
      " ", "T", " ", "P", "I", "N", " ", "5">>

\* Metric units
LineHeader ==
    <<"M", "e", "t", "r", "i", "c", " ", "u", "n", "i", "t", "s">>

\* $B2 1 2 TP 3 (T)
LineShort ==
    <<"$", "B", "2", " ", "1", " ", "2", " ", "T", "P", " ", "3", " ", "(", "T", ")">>

\* $C3 x 5 TP 3 (B) N7 VCC
LineNaN ==
    <<"$", "C", "3", " ", "x", " ", "5", " ", "T", "P", " ", "3", " ", "(", "B", ")",
      " ", "N", "7", " ", "V", "C", "C">>

\* $D4 Infinity 0 AA 1 (T) N1 CLK
LineInf ==
    <<"$", "D", "4", " ", "I", "n", "f", "i", "n", "i", "t", "y", " ", "0", " ", "A",
      "A", " ", "1", " ", "(", "T", ")", " ", "N", "1", " ", "C", "L", "K">>

\*   
LineBlank ==
    <<" ", " ">>

\* E5 1 2 TP 3 (T) N1 X
LineNoMark ==
    <<"E", "5", " ", "1", " ", "2", " ", "T", "P", " ", "3", " ", "(", "T", ")", " ",
      "N", "1", " ", "X">>

\* \t$F6 -3 4e1 BB 2 (B) N2\r
LineSeven ==
    <<"\t", "$", "F", "6", " ", "-", "3", " ", "4", "e", "1", " ", "B", "B", " ", "2",
      " ", "(", "B", ")", " ", "N", "2", "\r">>

\* $G7 1 2 TP 3 (T) N9 T PIN 5
LineTPinOnly ==
    <<"$", "G", "7", " ", "1", " ", "2", " ", "T", "P", " ", "3", " ", "(", "T", ")",
      " ", "N", "9", " ", "T", " ", "P", "I", "N", " ", "5">>

\* Date 5-Mar-2024 10:30
LineDate ==
    <<"D", "a", "t", "e", " ", "5", "-", "M", "a", "r", "-", "2", "0", "2", "4", " ",
      "1", "0", ":", "3", "0">>

\* $H8 3 4 TP 1 (B) N3 12-Apr-2023  09:15
LineRowDate ==
    <<"$", "H", "8", " ", "3", " ", "4", " ", "T", "P", " ", "1", " ", "(", "B", ")",
      " ", "N", "3", " ", "1", "2", "-", "A", "p", "r", "-", "2", "0", "2", "3", " ",
      " ", "0", "9", ":", "1", "5">>

\* $K1 7 8 TP 1 (T) N5 Imperial units 7-May-2022
LineRowUnits ==
    <<"$", "K", "1", " ", "7", " ", "8", " ", "T", "P", " ", "1", " ", "(", "T", ")",
      " ", "N", "5", " ", "I", "m", "p", "e", "r", "i", "a", "l", " ", "u", "n", "i",
      "t", "s", " ", "7", "-", "M", "a", "y", "-", "2", "0", "2", "2">>

LineMenu ==
    {LineA, LineHeader, LineShort, LineNaN, LineInf, LineBlank, LineNoMark, LineSeven,
     LineTPinOnly, LineDate, LineRowDate, LineRowUnits}

Texts == {Join(ls, <<"\n">>) : ls \in UNION {[1..k -> LineMenu] : k \in 0..MaxLines}}

AnyFileName == "board.asc"

\* the history before any event: budget is the number of zoom and pan steps the
\* run may still take, loads counts the requested file loads, k the consecutive
\* cycle commands since the query last changed (-1: none, or another search event
\* came between)
NoEvent ==
    [fresh |-> TRUE, focused |-> FALSE, last |-> "none", drag |-> FALSE, budget |-> 0,
     loads |-> 0, k |-> -1, latest |-> <<>>]

\* the App and PinMap state while only the parser runs
IdleApp ==
    /\ data = Null
    /\ error = Null
    /\ searchQuery = <<>>
    /\ searchMode = "nail"
    /\ activePinId = Null
    /\ activeResultIndex = -1
    /\ pending = {}
    /\ zoom = Int2Num(1)
    /\ offset = [x |-> Int2Num(0), y |-> Int2Num(0)]
    /\ isDragging = FALSE
    /\ dragStart = [x |-> 0, y |-> 0]
    /\ hist = NoEvent

InitParse ==
    /\ content \in Texts
    /\ parsed = Null
    /\ IdleApp

ParseStep ==
    /\ parsed = Null
    /\ parsed' = Some(parseNailFile(content, AnyFileName))
    /\ UNCHANGED <<content, appVars, viewVars, hist>>

NextParse == ParseStep

SpecParse == InitParse /\ [][NextParse]_vars

(***************************************************************************)
(* The files of the runs.  TextBoard holds the points P1(0,0), P2(100,100) *)
(* and p3(50,0); TextDup has two rows with the id $P1; TextInf has the row *)
(* $P2 whose x is Infinity; TextBad has no accepted row.                   *)
(***************************************************************************)
\* $P1 0 0 TP 1 (T) N1 GNDnet
RowP1 ==
    <<"$", "P", "1", " ", "0", " ", "0", " ", "T", "P", " ", "1", " ", "(", "T", ")",
      " ", "N", "1", " ", "G", "N", "D", "n", "e", "t">>

\* $P2 100 100 TP 1 (T) N2 POWER
RowP2 ==
    <<"$", "P", "2", " ", "1", "0", "0", " ", "1", "0", "0", " ", "T", "P", " ", "1",
      " ", "(", "T", ")", " ", "N", "2", " ", "P", "O", "W", "E", "R">>

\* $p3 50 0 AA 2 (B) N3 network2
RowP3 ==
    <<"$", "p", "3", " ", "5", "0", " ", "0", " ", "A", "A", " ", "2", " ", "(", "B",
      ")", " ", "N", "3", " ", "n", "e", "t", "w", "o", "r", "k", "2">>

\* $P1 10.5 20.25 TP 1 (T) N1 GND T PIN 5
RowDup ==
    <<"$", "P", "1", " ", "1", "0", ".", "5", " ", "2", "0", ".", "2", "5", " ", "T",
      "P", " ", "1", " ", "(", "T", ")", " ", "N", "1", " ", "G", "N", "D", " ", "T",
      " ", "P", "I", "N", " ", "5">>

\* $P2 Infinity 8 AA 1 (T) N4 CLK
RowInf ==
    <<"$", "P", "2", " ", "I", "n", "f", "i", "n", "i", "t", "y", " ", "8", " ", "A",
      "A", " ", "1", " ", "(", "T", ")", " ", "N", "4", " ", "C", "L", "K">>

NewLine == <<"\n">>

TextBoard == Join(<<LineHeader, RowP1, RowP2, RowP3>>, NewLine)

TextDup == Join(<<RowP1, RowDup>>, NewLine)

TextInf == Join(<<RowP1, RowInf>>, NewLine)

TextBad == Join(<<LineHeader, LineShort, LineNaN>>, NewLine)

FileBoard == [name |-> "board.asc", text |-> TextBoard]

FileDup == [name |-> "dup.asc", text |-> TextDup]

FileInf == [name |-> "inf.asc", text |-> TextInf]

FileBad == [name |-> "bad.txt", text |-> TextBad]

FileMenu == {FileBoard, FileDup, FileInf, FileBad}

\* the datasets of the files that parse
DataMenu == {parseNailFile(f.text, f.name) : f \in {FileBoard, FileDup, FileInf}}

\* $P1
IdP1 ==
    <<"$", "P", "1">>

\* $P2
IdP2 ==
    <<"$", "P", "2">>

\* the values of the activePinId prop: null, $P1 (a point of every file, of two
\* points in TextDup) and $P2 (a point of TextBoard, the point at Infinity of
\* TextInf, no point of TextDup)
PinIdMenu == {Null, Some(IdP1), Some(IdP2)}

\* the inputs of the pointer events
WheelDeltas == {-100, 100}

MouseButtons == {0, 2}

MousePositions == {[x |-> 0, y |-> 0], [x |-> 30, y |-> -20]}

(***************************************************************************)
(* PinMap on its own, under a parent that may hand it any activePinId.     *)
(* The initial state is the one after the first render and its effects.    *)
(***************************************************************************)
MaxViewOps == 3

InitPinMap ==
    /\ content = <<>>
    /\ parsed = Null
    /\ \E d \in DataMenu : data = Some(d)
    /\ error = Null
    /\ searchQuery = <<>>
    /\ searchMode = "nail"
    /\ activePinId \in PinIdMenu
    /\ activeResultIndex = -1
    /\ pending = {}
    /\ zoom = CenterOnPin(data[1], activePinId, DefaultZoom, DefaultOffset).zoom
    /\ offset = CenterOnPin(data[1], activePinId, DefaultZoom, DefaultOffset).offset
    /\ isDragging = FALSE
    /\ dragStart = [x |-> 0, y |-> 0]
    /\ hist = [NoEvent EXCEPT !.budget = MaxViewOps, !.focused = TRUE]

NextPinMap ==
    \/ ZoomInButton
    \/ ZoomOutButton
    \/ \E deltaY \in WheelDeltas : handleWheel(deltaY)
    \/ \E b \in MouseButtons, pos \in MousePositions : handleMouseDown(b, pos.x, pos.y)
    \/ \E pos \in MousePositions : handleMouseMove(pos.x, pos.y)
    \/ handleMouseUp
    \/ resetView
    \/ \E pinId \in PinIdMenu : SetActivePinId(pinId)

SpecPinMap == InitPinMap /\ [][NextPinMap]_vars

(***************************************************************************)
(* The operations that write zoom, on their own: the step buttons, the     *)
(* wheel, resetView and the center effect.                                 *)
(***************************************************************************)
MaxZoomOps == 6

InitZoom ==
    /\ content = <<>>
    /\ parsed = Null
    /\ \E d \in DataMenu : data = Some(d)
    /\ error = Null
    /\ searchQuery = <<>>
    /\ searchMode = "nail"
    /\ activePinId \in PinIdMenu
    /\ activeResultIndex = -1
    /\ pending = {}
    /\ zoom = CenterOnPin(data[1], activePinId, DefaultZoom, DefaultOffset).zoom
    /\ offset = CenterOnPin(data[1], activePinId, DefaultZoom, DefaultOffset).offset
    /\ isDragging = FALSE
    /\ dragStart = [x |-> 0, y |-> 0]
    /\ hist = [NoEvent EXCEPT !.budget = MaxZoomOps, !.focused = TRUE]

NextZoom ==
    \/ ZoomInButton
    \/ ZoomOutButton
    \/ \E deltaY \in WheelDeltas : handleWheel(deltaY)
    \/ resetView
    \/ \E pinId \in PinIdMenu : SetActivePinId(pinId)

SpecZoom == InitZoom /\ [][NextZoom]_vars

(***************************************************************************)
(* App.tsx: the file load, the search and the navigation.  One action is   *)
(* one event handler together with the renders and effects that follow it: *)
(* the reset-index effect of App (lines 111-113), which runs when          *)
(* searchQuery or searchMode has changed, and the center effect of PinMap  *)
(* (lines 47-65), which runs when activePinId, nails or the frame has      *)
(* changed.  The state updates of one handler are applied in one render.   *)
(* pinScale and isDraggingFile are display state and are left out.         *)
(***************************************************************************)
\* the bounds of the application's runs: file loads started, cycle commands after
\* one change of the query, viewport operations
MaxLoads == 2

MaxCycles == 4

AppViewOps == 1

\* filteredResults.slice(0, 50): the matches the result list shows
MaxListed == 50

\* the field a nail is searched by
SearchField(n, mode) == IF mode = "nail" THEN n.id ELSE n.netName

\* a search that compares the characters as they are
filteredResults_CaseSensitive(d, query, mode) ==
    IF d = Null \/ trim(query) = <<>> THEN <<>>
    ELSE SelectSeq(d[1].nails, LAMBDA n : includes(SearchField(n, mode), query))

\* the useMemo of lines 87-97
filteredResults(d, query, mode) ==
    IF d = Null \/ trim(query) = <<>> THEN <<>>
    ELSE SelectSeq(d[1].nails,
                   LAMBDA n : includes(toLowerCase(SearchField(n, mode)), toLowerCase(query)))

\* the view after a render of a mounted PinMap whose activePinId prop is pinId:
\* the center effect runs when the prop has changed
ViewAfterFocus(pinId) ==
    IF pinId # activePinId
    THEN /\ zoom' = CenterOnPin(data[1], pinId, zoom, offset).zoom
         /\ offset' = CenterOnPin(data[1], pinId, zoom, offset).offset
    ELSE UNCHANGED <<zoom, offset>>

\* onFileChange and onDrop: handleFileUpload(file) up to its await of file.text();
\* the file input and the drop zone are rendered only while data is null
handleFileUpload(file) ==
    /\ data = Null
    /\ hist.loads < MaxLoads
    /\ pending' = pending \cup {file}
    /\ hist' = [Note EXCEPT !.loads = hist.loads + 1,
                             !.latest = IF pending # {} THEN <<file>> ELSE <<>>]
    /\ UNCHANGED <<data, error, searchQuery, searchMode, activePinId, activeResultIndex,
                   viewVars, parseVars>>

\* a try block that leaves the search text as it is
UploadSucceeds_KeepsSearch(load, result) ==
    /\ data' = Some(result)
    /\ error' = Null
    /\ activePinId' = Null
    /\ activeResultIndex' = -1
    /\ IF data = Null
       THEN FreshView(zoom', offset', isDragging', dragStart')
       ELSE UNCHANGED viewVars
    /\ hist' = [Note EXCEPT !.last = "loaded", !.k = -1, !.latest = hist.latest]
    /\ UNCHANGED <<searchQuery, searchMode, parseVars>>

\* the try block of handleFileUpload after the await, for a text that parses.
\* A PinMap that is mounted stays mounted and keeps its state; its center effect
\* runs with activePinId null and does nothing.
\* a successful load that leaves the focus target alone
UploadSucceeds_KeepsFocus(load, result) ==
    /\ data' = Some(result)
    /\ error' = Null
    /\ searchQuery' = <<>>
    /\ activeResultIndex' = -1
    /\ IF data = Null
       THEN FreshView(zoom', offset', isDragging', dragStart')
       ELSE UNCHANGED viewVars
    /\ hist' = [Note EXCEPT !.last = "loaded", !.k = -1, !.latest = hist.latest]
    /\ UNCHANGED <<activePinId, searchMode, parseVars>>

UploadSucceeds(load, result) ==
    /\ data' = Some(result)
    /\ error' = Null
    /\ searchQuery' = <<>>
    /\ activePinId' = Null
    /\ activeResultIndex' = -1
    /\ IF data = Null
       THEN FreshView(zoom', offset', isDragging', dragStart')
       ELSE UNCHANGED viewVars
    /\ hist' = [Note EXCEPT !.last = "loaded", !.k = -1, !.latest = hist.latest]
    /\ UNCHANGED <<searchMode, parseVars>>

\* a catch block that also drops the dataset
UploadFails_ClearsData(load, result) ==
    /\ error' = Some(result.error)
    /\ data' = Null
    /\ FreshView(zoom', offset', isDragging', dragStart')
    /\ hist' = [Note EXCEPT !.last = "loadFailed", !.latest = hist.latest]
    /\ UNCHANGED <<searchQuery, searchMode, activePinId, activeResultIndex, parseVars>>

\* the catch block of handleFileUpload
UploadFails(load, result) ==
    /\ error' = Some(result.error)
    /\ hist' = [Note EXCEPT !.last = "loadFailed", !.latest = hist.latest]
    /\ UNCHANGED <<data, searchQuery, searchMode, activePinId, activeResultIndex,
                   viewVars, parseVars>>

\* parseNailFile(text, file.name) for the text of each file a run can load
ParseOf == [file \in FileMenu |-> parseNailFile(file.text, file.name)]

\* file.text() of a pending load resolves and handleFileUpload runs to its end
FileTextResolves(load) ==
    /\ load \in pending
    /\ pending' = pending \ {load}
    /\ LET result == ParseOf[load]
       IN  IF result.ok THEN UploadSucceeds(load, result) ELSE UploadFails(load, result)

\* the close button: setData(null); PinMap is unmounted and its state is gone
CloseData ==
    /\ data # Null
    /\ data' = Null
    /\ FreshView(zoom', offset', isDragging', dragStart')
    /\ hist' = [Note EXCEPT !.k = -1]
    /\ UNCHANGED <<error, searchQuery, searchMode, activePinId, activeResultIndex,
                   pending, parseVars>>

\* a change of the query that is not followed by the reset-index effect
setSearchQuery_KeepsIndex(query) ==
    /\ data # Null
    /\ searchQuery' = query
    /\ hist' = [Note EXCEPT !.k = IF query # searchQuery THEN 0 ELSE hist.k]
    /\ UNCHANGED <<data, error, searchMode, activePinId, activeResultIndex, pending,
                   viewVars, parseVars>>

\* onChange of the search input, then the reset-index effect
setSearchQuery(query) ==
    /\ data # Null
    /\ searchQuery' = query
    /\ activeResultIndex' = IF query # searchQuery THEN -1 ELSE activeResultIndex
    /\ hist' = [Note EXCEPT !.k = IF query # searchQuery THEN 0 ELSE hist.k]
    /\ UNCHANGED <<data, error, searchMode, activePinId, pending, viewVars, parseVars>>

\* a change of the mode that also puts the viewport back to its defaults
setSearchMode_ResetsView(mode) ==
    /\ data # Null
    /\ searchMode' = mode
    /\ activeResultIndex' = IF mode # searchMode THEN -1 ELSE activeResultIndex
    /\ zoom' = DefaultZoom
    /\ offset' = DefaultOffset
    /\ hist' = [Note EXCEPT !.k = IF mode # searchMode THEN -1 ELSE hist.k]
    /\ UNCHANGED <<data, error, searchQuery, activePinId, pending, isDragging, dragStart,
                   parseVars>>

\* the mode buttons, then the reset-index effect
setSearchMode(mode) ==
    /\ data # Null
    /\ searchMode' = mode
    /\ activeResultIndex' = IF mode # searchMode THEN -1 ELSE activeResultIndex
    /\ hist' = [Note EXCEPT !.k = IF mode # searchMode THEN -1 ELSE hist.k]
    /\ UNCHANGED <<data, error, searchQuery, activePinId, pending, viewVars, parseVars>>

\* a cycle that stops at the last match
nextIndex_NoWrap(results) ==
    IF activeResultIndex + 1 < Len(results) THEN activeResultIndex + 1 ELSE Len(results) - 1

\* the new index of a cycle command over the matches
nextIndex(results) == (activeResultIndex + 1) % Len(results)

\* a key handler that drops the focus target when Enter finds no match
handleSearchKeyDown_ClearsFocus(key) ==
    /\ data # Null
    /\ hist.k < MaxCycles
    /\ LET results == filteredResults(data, searchQuery, searchMode)
       IN  IF key = "Enter" /\ Len(results) > 0
           THEN /\ activeResultIndex' = nextIndex(results)
                /\ activePinId' = Some(results[nextIndex(results) + 1].id)
                /\ ViewAfterFocus(Some(results[nextIndex(results) + 1].id))
                /\ hist' = [Note EXCEPT !.last = "cycle",
                                        !.focused = (activePinId' # activePinId),
                                        !.k = IF hist.k >= 0 THEN hist.k + 1 ELSE -1]
           ELSE /\ activePinId' = IF key = "Enter" THEN Null ELSE activePinId
                /\ UNCHANGED <<activeResultIndex, zoom, offset>>
                /\ hist' = [Note EXCEPT !.last = IF key = "Enter" THEN "cycleEmpty" ELSE "none"]
    /\ UNCHANGED <<data, error, searchQuery, searchMode, pending, isDragging, dragStart,
                   parseVars>>

\* onKeyDown of the search input, then the center effect of PinMap
handleSearchKeyDown(key) ==
    /\ data # Null
    /\ hist.k < MaxCycles
    /\ LET results == filteredResults(data, searchQuery, searchMode)
       IN  IF key = "Enter" /\ Len(results) > 0
           THEN /\ activeResultIndex' = nextIndex(results)
                /\ activePinId' = Some(results[nextIndex(results) + 1].id)
                /\ ViewAfterFocus(Some(results[nextIndex(results) + 1].id))
                /\ hist' = [Note EXCEPT !.last = "cycle",
                                        !.focused = (activePinId' # activePinId),
                                        !.k = IF hist.k >= 0 THEN hist.k + 1 ELSE -1]
           ELSE /\ UNCHANGED <<activeResultIndex, activePinId, zoom, offset>>
                /\ hist' = [Note EXCEPT !.last = IF key = "Enter" THEN "cycleEmpty" ELSE "none"]
    /\ UNCHANGED <<data, error, searchQuery, searchMode, pending, isDragging, dragStart,
                   parseVars>>

\* onClick of entry idx of the match list, then the center effect of PinMap
ClickResult(idx) ==
    /\ data # Null
    /\ searchQuery # <<>>
    /\ LET results == filteredResults(data, searchQuery, searchMode)
       IN  /\ idx < Len(results)
           /\ idx < MaxListed
           /\ activePinId' = Some(results[idx + 1].id)
           /\ activeResultIndex' = idx
           /\ ViewAfterFocus(Some(results[idx + 1].id))
    /\ hist' = [Note EXCEPT !.focused = (activePinId' # activePinId), !.k = -1]
    /\ UNCHANGED <<data, error, searchQuery, searchMode, pending, isDragging, dragStart,
                   parseVars>>

(***************************************************************************)
(* The application: the inputs of its events and its specification.  The   *)
(* viewport is moved by the + button, by resetView and by the focus; the   *)
(* other zoom controls and the drag are exercised in SpecPinMap.           *)
(***************************************************************************)
QueryEmpty == <<>>

QueryBlank == <<" ">>

QueryP == <<"p">>

QueryNet == <<"n", "e", "t">>

QueryP2 == <<"P", "2">>

\* the files a run of the application loads
AppFiles == {FileBoard, FileDup, FileBad}

QueryMenu == {QueryEmpty, QueryBlank, QueryP, QueryNet, QueryP2}

ModeMenu == {"nail", "net"}

KeyMenu == {"Enter", "Escape"}

\* the entries of the match list that can be clicked: no file has more than 3 points
ClickMenu == 0..2

Init ==
    /\ content = <<>>
    /\ parsed = Null
    /\ data = Null
    /\ error = Null
    /\ searchQuery = <<>>
    /\ searchMode = "nail"
    /\ activePinId = Null
    /\ activeResultIndex = -1
    /\ pending = {}
    /\ FreshView(zoom, offset, isDragging, dragStart)
    /\ hist = [NoEvent EXCEPT !.budget = AppViewOps]

Next ==
    \/ \E file \in AppFiles : handleFileUpload(file)
    \/ \E load \in pending : FileTextResolves(load)
    \/ CloseData
    \/ \E query \in QueryMenu : setSearchQuery(query)
    \/ \E mode \in ModeMenu : setSearchMode(mode)
    \/ \E key \in KeyMenu : handleSearchKeyDown(key)
    \/ \E idx \in ClickMenu : ClickResult(idx)
    \/ ZoomInButton
    \/ resetView

Spec == Init /\ [][Next]_vars

(***************************************************************************)
(* What the claims say of a line, stated on the characters of the line     *)
(* and not through the parser's own steps.                                 *)
(***************************************************************************)
\* the k-th smallest member of a set of positions
Kth(positions, k) ==
    CHOOSE i \in positions : Cardinality({j \in positions : j <= i}) = k

\* the positions where a token (a maximal run of non-blank characters) starts
TokenStarts(line) ==
    {i \in 1..Len(line) : line[i] \notin WhiteSpace /\ (i = 1 \/ line[i - 1] \in WhiteSpace)}

\* the position where the k-th token of the line starts
TokenStart(line, k) ==
    CHOOSE i \in TokenStarts(line) : Cardinality({j \in TokenStarts(line) : j <= i}) = k

\* the line is a row: its first non-blank character is $ and it has 7 tokens or more
IsRow(line) ==
    /\ Cardinality(TokenStarts(line)) >= 7
    /\ line[TokenStart(line, 1)] = "$"

\* the position where the k-th token of the line ends
TokenEnd(line, k) ==
    CHOOSE j \in TokenStart(line, k)..Len(line) :
        /\ \A i \in TokenStart(line, k)..j : line[i] \notin WhiteSpace
        /\ j = Len(line) \/ line[j + 1] \in WhiteSpace

\* the k-th token of the line
Token(line, k) == SubSeq(line, TokenStart(line, k), TokenEnd(line, k))

\* the number of tokens of the line
TokenCount(line) == Cardinality(TokenStarts(line))

\* the k-th token of a row parses as a finite number
NumericToken(line, k) == isFinite(parseFloat(Token(line, k)))

\* the line is a row the parser is to accept
IsAcceptedRow(line) == IsRow(line) /\ NumericToken(line, 2) /\ NumericToken(line, 3)

LinesOf(text) == SplitChar(text, "\n", 1)

AcceptedCount(text) ==
    Cardinality({i \in 1..Len(LinesOf(text)) : IsAcceptedRow(LinesOf(text)[i])})

RowCount(text) == Cardinality({i \in 1..Len(LinesOf(text)) : IsRow(LinesOf(text)[i])})

(***************************************************************************)
(* C5: parse fails with the no-data error exactly when no row is accepted  *)
(* after the full scan, in particular whenever the text has no $-prefixed  *)
(* row of 7 tokens or more; otherwise it returns a dataset, which has as   *)
(* many points as rows were accepted and so never zero points; a rejected  *)
(* row next to an accepted one does not make the parse fail.  A row is     *)
(* accepted when it has 7 tokens or more and finite x and y.               *)
(***************************************************************************)
C5_NoDataExactlyWhenEmpty ==
    parsed # Null =>
        LET r == parsed[1]
        IN  /\ (~r.ok) <=> (AcceptedCount(content) = 0)
            /\ RowCount(content) = 0 => ~r.ok
            /\ ~r.ok => r.error = NoDataError
            /\ r.ok => Len(r.nails) = AcceptedCount(content) /\ Len(r.nails) > 0

(***************************************************************************)
(* C13: in every dataset a parse returns, every point lies inside the      *)
(* bounds, minX <= x <= maxX and minY <= y <= maxY, and minX <= maxX and   *)
(* minY <= maxY.                                                           *)
(***************************************************************************)
C13_PointsInsideBounds ==
    (parsed # Null /\ parsed[1].ok) =>
        LET r == parsed[1]
        IN  /\ \A i \in 1..Len(r.nails) :
                   /\ NumLe(r.bounds.minX, r.nails[i].x)
                   /\ NumLe(r.nails[i].x, r.bounds.maxX)
                   /\ NumLe(r.bounds.minY, r.nails[i].y)
                   /\ NumLe(r.nails[i].y, r.bounds.maxY)
            /\ NumLe(r.bounds.minX, r.bounds.maxX)
            /\ NumLe(r.bounds.minY, r.bounds.maxY)

\* a dataset of two points that differ in x and in y, the later one the lower
C13_Witness ==
    /\ parsed # Null
    /\ parsed[1].ok
    /\ Len(parsed[1].nails) = 2
    /\ NumLt(parsed[1].nails[2].x, parsed[1].nails[1].x)
    /\ NumLt(parsed[1].nails[1].y, parsed[1].nails[2].y)

(***************************************************************************)
(* C14: the points of the result are, in line order, exactly the rows that *)
(* start with $ when trimmed, have 7 tokens or more and have finite x and  *)
(* y; a row with a non-finite x or y is dropped and the others are kept; a *)
(* row of fewer than 7 tokens gives no point.                              *)
(***************************************************************************)
\* the positions of the lines of the text that are accepted rows
AcceptedLines(text) == {i \in 1..Len(LinesOf(text)) : IsAcceptedRow(LinesOf(text)[i])}

\* the points of a parse outcome: none when the parse failed
PointsOf(r) == IF r.ok THEN r.nails ELSE <<>>

C14_PointsAreFiniteRows ==
    parsed # Null =>
        LET points == PointsOf(parsed[1])
            rows == AcceptedLines(content)
        IN  /\ Len(points) = Cardinality(rows)
            /\ \A k \in 1..Len(points) :
                   k <= Cardinality(rows) =>
                       LET line == LinesOf(content)[Kth(rows, k)]
                       IN  /\ points[k].id = Token(line, 1)
                           /\ points[k].x = parseFloat(Token(line, 2))
                           /\ points[k].y = parseFloat(Token(line, 3))
            /\ \A k \in 1..Len(points) : isFinite(points[k].x) /\ isFinite(points[k].y)

(***************************************************************************)
(* C18: for every point of the result, with tail = the tokens 7 and later  *)
(* of its row joined by single spaces: when the tail contains "T PIN",     *)
(* netName is the tail before the marker and virtualPin the trimmed text   *)
(* after it; otherwise netName is token 7, or "N/A" when there is none,    *)
(* and virtualPin is empty.  The row $A1 10.5 20.25 TP 3 (T) N100 GND T    *)
(* PIN 5 gives netName GND, virtualPin 5 and side T.                       *)
(***************************************************************************)
\* the positions of the lines the parser made a point of
PushedLines(text) ==
    {i \in 1..Len(LinesOf(text)) : RowNails(LinesOf(text)[i]) # <<>>}

\* tokens 7 and later (positions 8 and up) of the row, joined by single spaces
TailOf(line) == Join([k \in 1..(TokenCount(line) - 7) |-> Token(line, k + 7)], <<" ">>)

\* what the tail says the net name is; the blanks before the marker belong to it
TailNetName(line) ==
    LET tail == TailOf(line)
        at == IndexOf(tail, StrTPin)
    IN  IF at # 0 THEN TrimEnd(SubSeq(tail, 1, at - 1))
        ELSE IF TokenCount(line) >= 8 THEN Token(line, 8)
        ELSE StrNA

\* what the tail says the virtual pin is
TailVirtualPin(line) ==
    LET tail == TailOf(line)
        at == IndexOf(tail, StrTPin)
    IN  IF at # 0 THEN trim(SubSeq(tail, at + Len(StrTPin), Len(tail))) ELSE <<>>

C18_NetNameAndVirtualPin ==
    (parsed # Null /\ parsed[1].ok) =>
        LET nails == parsed[1].nails
            rows == PushedLines(content)
        IN  /\ \A k \in 1..Len(nails) :
                   /\ nails[k].netName = TailNetName(LinesOf(content)[Kth(rows, k)])
                   /\ nails[k].virtualPin = TailVirtualPin(LinesOf(content)[Kth(rows, k)])
            /\ content = LineA =>
                   /\ nails[1].netName = <<"G", "N", "D">>
                   /\ nails[1].virtualPin = <<"5">>
                   /\ nails[1].side = <<"T">>

(***************************************************************************)
(* C22: the metadata come from the last line that has them.  units is      *)
(* Metric or Imperial as the last line that contains "Metric units" or     *)
(* "Imperial units" says, and Unknown when no line contains either; date   *)
(* is the match of the date pattern in the last line that has one, and     *)
(* empty when no line has one.                                             *)
(***************************************************************************)
\* t is a day of 1 or 2 digits, a hyphen, a word, a hyphen, a year of 4 digits,
\* blanks, and a time dd:dd; day is the number of digits of the day and word the
\* length of the word
IsDateTimeAs(t, day, word) ==
    LET n == Len(t)
        year == day + word + 2
    IN  /\ n >= year + 4 + 1 + 5
        /\ \A i \in 1..day : t[i] \in Digits
        /\ t[day + 1] = "-"
        /\ \A i \in (day + 2)..(day + 1 + word) : t[i] \in WordChars
        /\ t[year] = "-"
        /\ \A i \in (year + 1)..(year + 4) : t[i] \in Digits
        /\ \A i \in (year + 5)..(n - 5) : t[i] \in WhiteSpace
        /\ t[n - 4] \in Digits
        /\ t[n - 3] \in Digits
        /\ t[n - 2] = ":"
        /\ t[n - 1] \in Digits
        /\ t[n] \in Digits

IsDateTime(t) ==
    /\ Len(t) >= 14
    /\ t[1] \in Digits
    /\ t[Len(t) - 2] = ":"
    /\ \E day \in 1..2 : \E word \in 1..(Len(t) - 12) : IsDateTimeAs(t, day, word)

\* the places <<i, j>> of the line where a date with a time stands
DatePlaces(line) ==
    {p \in (1..Len(line)) \X (1..Len(line)) :
        p[1] < p[2] /\ IsDateTime(SubSeq(line, p[1], p[2]))}

\* the leftmost date with a time of a line that has one
LeftmostDate(line) ==
    LET p == CHOOSE q \in DatePlaces(line) : \A r \in DatePlaces(line) : q[1] <= r[1]
    IN  SubSeq(line, p[1], p[2])

\* the positions of the lines that name the units, and of those that have a date
UnitLines(text) ==
    {i \in 1..Len(LinesOf(text)) :
        \/ includes(LinesOf(text)[i], StrMetric)
        \/ includes(LinesOf(text)[i], StrImperial)}

DateLines(text) == {i \in 1..Len(LinesOf(text)) : DatePlaces(LinesOf(text)[i]) # {}}

\* the greatest member of a non-empty set of positions
Last(positions) == CHOOSE i \in positions : \A j \in positions : j <= i

C22_MetadataFromLastLine ==
    (parsed # Null /\ parsed[1].ok) =>
        LET meta == parsed[1].metadata
            lines == LinesOf(content)
        IN  /\ UnitLines(content) = {} => meta.units = "Unknown"
            /\ UnitLines(content) # {} =>
                   /\ meta.units \in {"Metric", "Imperial"}
                   /\ meta.units = "Metric" =>
                          includes(lines[Last(UnitLines(content))], StrMetric)
                   /\ meta.units = "Imperial" =>
                          includes(lines[Last(UnitLines(content))], StrImperial)
            /\ DateLines(content) = {} => meta.date = <<>>
            /\ DateLines(content) # {} =>
                   meta.date = LeftmostDate(lines[Last(DateLines(content))])

\* two lines with a date and a time, and the date of the second is recorded; it
\* is not the date of the first
C22_Witness ==
    /\ parsed # Null
    /\ parsed[1].ok
    /\ Cardinality(DateLines(content)) = 2
    /\ parsed[1].metadata.date = LeftmostDate(LinesOf(content)[2])
    /\ parsed[1].metadata.date # LeftmostDate(LinesOf(content)[1])

(***************************************************************************)
(* What the claims say of the viewport.                                    *)
(***************************************************************************)
\* a === b for numbers: NaN equals nothing
NumEq(a, b) == ~isNaN(a) /\ ~isNaN(b) /\ a = b

\* the point the id of the activePinId prop resolves to: the first with that id
FocusHit == activePinId # Null /\ find(data[1].nails, activePinId[1]) # 0

FocusPin == data[1].nails[find(data[1].nails, activePinId[1])]

\* where the transform scale(zoom) translate(offset) puts a point
ScreenX(pin) == NumMul(NumAdd(pin.x, offset.x), zoom)

ScreenY(pin) == NumMul(NumAdd(pin.y, offset.y), zoom)

(***************************************************************************)
(* C1: in every state reached by the step buttons, wheel ticks, resetView  *)
(* and focusOn, the zoom is inside [0.05, 100].                            *)
(***************************************************************************)
C1_ZoomInRange == data # Null => NumLe(ZoomMin, zoom) /\ NumLe(zoom, ZoomMax)

(***************************************************************************)
(* C2: after focusOn(id), for the id of a point of the dataset, the view   *)
(* transform maps that point exactly to the center of the logical          *)
(* viewport; with P1(0,0), P2(100,100) and the default view, focusOn(P2)   *)
(* gives zoom 10 and the offset (-95, -95).                                *)
(***************************************************************************)
C2_FocusCenters ==
    /\ (data # Null /\ hist.focused /\ FocusHit) =>
           /\ NumEq(ScreenX(FocusPin), centerX(data[1]))
           /\ NumEq(ScreenY(FocusPin), centerY(data[1]))
    /\ (data # Null /\ hist.fresh /\ hist.focused /\ activePinId = Some(IdP2)
          /\ data[1].metadata.fileName = FileBoard.name) =>
           /\ zoom = Int2Num(10)
           /\ offset = [x |-> Int2Num(-95), y |-> Int2Num(-95)]

\* every coordinate of the dataset is a finite number
FiniteData(d) == \A i \in 1..Len(d.nails) : isFinite(d.nails[i].x) /\ isFinite(d.nails[i].y)

\* C2 for the datasets without an infinite coordinate: there the focus centers
C2_FocusCentersFinite ==
    (data # Null /\ hist.focused /\ FocusHit /\ FiniteData(data[1])) =>
        /\ NumEq(ScreenX(FocusPin), centerX(data[1]))
        /\ NumEq(ScreenY(FocusPin), centerY(data[1]))

(***************************************************************************)
(* C3: a focus on the id of a point sets the zoom to max(zoom before, 10); *)
(* the zoom after it is never lower than the zoom before it.               *)
(***************************************************************************)
C3_FocusNeverZoomsOut ==
    [][(hist'.focused /\ activePinId' # Null
          /\ find(data'[1].nails, activePinId'[1]) # 0) =>
           /\ zoom' = MathMax(zoom, FocusZoom)
           /\ NumLe(zoom, zoom')
           /\ NumLe(FocusZoom, zoom')]_vars

\* a focus that found its point at a zoom above 10 and kept that zoom
C3_Witness ==
    /\ ~hist.fresh
    /\ hist.focused
    /\ FocusHit
    /\ NumLt(FocusZoom, zoom)

(***************************************************************************)
(* C4: a focus on an id no point of the dataset has changes neither zoom   *)
(* nor offset, and sets no error.                                          *)
(***************************************************************************)
C4_FocusMissIsNoOp ==
    [][(hist'.focused /\ activePinId' # Null
          /\ find(data'[1].nails, activePinId'[1]) = 0) =>
           /\ zoom' = zoom
           /\ offset' = offset
           /\ error' = error
           /\ data' = data]_vars

\* a focus that missed, in a view that was zoomed and panned before
C4_Witness ==
    /\ ~hist.fresh
    /\ hist.focused
    /\ activePinId # Null
    /\ ~FocusHit
    /\ zoom # DefaultZoom
    /\ offset # DefaultOffset

(***************************************************************************)
(* C15: a focus on an id, repeated with nothing else in between, leaves    *)
(* zoom and offset exactly as the first focus left them: the repeated call *)
(* changes neither, and the centering itself, done again, gives the same   *)
(* zoom and offset.                                                        *)
(***************************************************************************)
C15_RepeatedFocusStep == hist'.last = "refocus" => zoom' = zoom /\ offset' = offset

C15_CenteringTwice ==
    (data # Null /\ activePinId # Null) =>
        LET once == CenterOnPin(data[1], activePinId, zoom, offset)
        IN  CenterOnPin(data[1], activePinId, once.zoom, once.offset) = once

C15_FocusTwiceIsIdempotent == []C15_CenteringTwice /\ [][C15_RepeatedFocusStep]_vars

\* the focus on a point of the dataset has been repeated, at a zoom above 10
C15_Witness ==
    /\ hist.last = "refocus"
    /\ FocusHit
    /\ NumLt(FocusZoom, zoom)

(***************************************************************************)
(* C16: a pointer move changes the offset only while a drag is in          *)
(* progress, that is after a pointer-down and before the next pointer-up   *)
(* or pointer-leave; outside a drag it leaves the offset as it is, inside  *)
(* a drag it adds (pointer position - position of the previous move or of  *)
(* the pointer-down) / zoom to the offset; it never changes the zoom.      *)
(***************************************************************************)
C16_PanOnlyWhileDragging ==
    [][hist'.last = "move" =>
           /\ zoom' = zoom
           /\ IF hist.drag
              THEN offset' =
                       [x |-> NumAdd(offset.x,
                                     NumDiv(Int2Num(dragStart'.x - dragStart.x), zoom)),
                        y |-> NumAdd(offset.y,
                                     NumDiv(Int2Num(dragStart'.y - dragStart.y), zoom))]
              ELSE offset' = offset]_vars

\* a move inside a drag has panned a view that no focus has touched, at a zoom
\* other than 1
C16_Witness ==
    /\ hist.last = "move"
    /\ hist.drag
    /\ activePinId = Null
    /\ zoom # DefaultZoom
    /\ offset # DefaultOffset

(***************************************************************************)
(* What the claims say of a file load and of the search.                   *)
(***************************************************************************)
\* this step is the end of a load whose parse failed
LoadFailed == hist'.last = "loadFailed"

\* this step is the end of a load whose parse gave a dataset
LoadSucceeded == hist'.last = "loaded"

\* the query has no character but blanks
IsBlank(query) == \A i \in 1..Len(query) : query[i] \in WhiteSpace

\* s contains q when the case of the letters is ignored
ContainsNoCase(s, q) ==
    \E at \in 0..(Len(s) - Len(q)) :
        \A j \in 1..Len(q) : LowerChar(s[at + j]) = LowerChar(q[j])

\* the positions of the points the query selects
MatchPositions(nails, query, mode) ==
    {i \in 1..Len(nails) :
        ContainsNoCase(IF mode = "nail" THEN nails[i].id ELSE nails[i].netName, query)}

\* the matches of the current search
Matches == filteredResults(data, searchQuery, searchMode)

(***************************************************************************)
(* C6: a load whose parse fails changes the error message and nothing      *)
(* else: the dataset, the search and the viewport are after the failure    *)
(* what they were before it.                                               *)
(***************************************************************************)
C6_FailedLoadKeepsDataset ==
    [][LoadFailed =>
           /\ data' = data
           /\ error' # Null
           /\ UNCHANGED <<searchQuery, searchMode, activePinId, activeResultIndex,
                          zoom, offset>>]_vars

\* a load has just failed while a dataset was loaded, and the dataset is there
C6_Witness ==
    /\ hist.last = "loadFailed"
    /\ data # Null
    /\ error = Some(NoDataError)

(***************************************************************************)
(* C7: whenever a successful load makes a dataset the current one, in any  *)
(* interleaving of load requests and completions, the viewport is at its   *)
(* defaults zoom = 1 and offset = (0, 0) afterwards.                       *)
(***************************************************************************)
C7_LoadResetsViewport ==
    [][LoadSucceeded => zoom' = DefaultZoom /\ offset' = DefaultOffset]_vars

(***************************************************************************)
(* C8 as stated: every load attempt, failed or not, leaves the search text *)
(* empty, the focus none and the match index none.                         *)
(***************************************************************************)
C8_EveryLoadResetsSearch ==
    [][(LoadSucceeded \/ LoadFailed) =>
           /\ searchQuery' = <<>>
           /\ activePinId' = Null
           /\ activeResultIndex' = -1]_vars

(***************************************************************************)
(* C8: a successful load leaves the search text empty, the focus none and  *)
(* the match index none; a failed load leaves all three as they were.      *)
(***************************************************************************)
C8_SuccessfulLoadResetsSearch ==
    [][/\ LoadSucceeded =>
              /\ searchQuery' = <<>>
              /\ activePinId' = Null
              /\ activeResultIndex' = -1
       /\ LoadFailed => UNCHANGED <<searchQuery, activePinId, activeResultIndex>>]_vars

\* a load has just failed and the search text and the focus are still there
C8_Witness ==
    /\ hist.last = "loadFailed"
    /\ searchQuery # <<>>
    /\ activePinId # Null
    /\ activeResultIndex >= 0

(***************************************************************************)
(* C9: the search returns exactly the points whose id (nail mode) or net   *)
(* name (net mode) contains the query, letter case ignored, in the order   *)
(* of the dataset and with no point dropped as a duplicate; a query that   *)
(* is empty or all blanks returns no point.  Query "net" in net mode over  *)
(* the net names GNDnet, POWER, network2 returns the first and the third.  *)
(***************************************************************************)
C9_SearchReturnsMatches ==
    data # Null =>
        LET nails == data[1].nails
            found == MatchPositions(nails, searchQuery, searchMode)
        IN  /\ IsBlank(searchQuery) => Matches = <<>>
            /\ ~IsBlank(searchQuery) =>
                   /\ Len(Matches) = Cardinality(found)
                   /\ \A k \in 1..Len(Matches) : Matches[k] = nails[Kth(found, k)]
            /\ (data[1].metadata.fileName = FileBoard.name /\ searchQuery = QueryNet
                  /\ searchMode = "net") => Matches = <<nails[1], nails[3]>>

\* query "net" in net mode over the board file has found two of its three points
C9_Witness ==
    /\ data # Null
    /\ data[1].metadata.fileName = FileBoard.name
    /\ searchQuery = QueryNet
    /\ searchMode = "net"
    /\ Len(Matches) = 2
    /\ Len(data[1].nails) = 3

(***************************************************************************)
(* C10: after k >= 1 cycle commands in a row that follow a change of the   *)
(* query, with m > 0 matches, the selected index is (k-1) mod m and the    *)
(* focus target is the id of the match at that index; every cycle command  *)
(* moves the index to (index + 1) mod m, from the last match to the first. *)
(***************************************************************************)
C10_CycleIndex ==
    (hist.k >= 1 /\ Len(Matches) > 0) =>
        /\ activeResultIndex = (hist.k - 1) % Len(Matches)
        /\ activePinId = Some(Matches[activeResultIndex + 1].id)

C10_CycleStep ==
    hist'.last = "cycle" =>
        /\ Len(Matches) > 0
        /\ activeResultIndex' = (activeResultIndex + 1) % Len(Matches)
        /\ activePinId' = Some(Matches[activeResultIndex' + 1].id)
        /\ (activeResultIndex = Len(Matches) - 1) => activeResultIndex' = 0

C10_CyclingSelectsMatch == []C10_CycleIndex /\ [][C10_CycleStep]_vars

\* the third cycle command over two matches has wrapped to the first match
C10_Witness ==
    /\ hist.last = "cycle"
    /\ hist.k = 3
    /\ Len(Matches) = 2
    /\ activeResultIndex = 0

(***************************************************************************)
(* C11: whenever the query text or the search mode changes, the match      *)
(* index becomes -1 (none selected), whatever it was, so that the next     *)
(* cycle command selects the first match.                                  *)
(***************************************************************************)
C11_ChangeResetsIndex ==
    [][/\ (searchQuery' # searchQuery \/ searchMode' # searchMode) =>
              activeResultIndex' = -1
       /\ (hist'.last = "cycle" /\ activeResultIndex = -1) =>
              /\ activeResultIndex' = 0
              /\ activePinId' = Some(Matches[1].id)]_vars

\* the query was changed after a match had been selected: the index is -1, the
\* focus target of the old selection is still there and the new query has matches
C11_Witness ==
    /\ hist.k = 0
    /\ hist.last = "none"
    /\ activeResultIndex = -1
    /\ activePinId # Null
    /\ Len(Matches) > 0

(***************************************************************************)
(* C12: a cycle command while the query has no match changes neither the   *)
(* match index nor the focus target nor the zoom nor the offset.           *)
(***************************************************************************)
C12_CycleOnNoMatchIsNoOp ==
    [][hist'.last = "cycleEmpty" =>
           /\ Len(Matches) = 0
           /\ UNCHANGED <<activeResultIndex, activePinId, zoom, offset>>]_vars

\* Enter was pressed on a query that is not blank and has no match, with a focus
\* target in place
C12_Witness ==
    /\ hist.last = "cycleEmpty"
    /\ ~IsBlank(searchQuery)
    /\ activePinId # Null

(***************************************************************************)
(* C17: resetView sets zoom to 1 and offset to (0, 0) whatever they were   *)
(* and whatever the bounds of the dataset are, and leaves the focus target *)
(* and the search state as they are.                                       *)
(***************************************************************************)
C17_ResetViewRestoresDefaults ==
    [][hist'.last = "reset" =>
           /\ zoom' = Int2Num(1)
           /\ offset' = [x |-> Int2Num(0), y |-> Int2Num(0)]
           /\ UNCHANGED <<activePinId, searchQuery, searchMode, activeResultIndex,
                          data>>]_vars

\* the view was reset while a match was selected and focused
C17_Witness ==
    /\ hist.last = "reset"
    /\ activePinId # Null
    /\ activeResultIndex >= 0
    /\ searchQuery # <<>>

(***************************************************************************)
(* C19: after every cycle command with m > 0 matches the view is centered  *)
(* on the match the command selected, whatever pan or zoom was done since  *)
(* the focus before, also when m = 1 and when the selected match has the   *)
(* id of the focus before.                                                 *)
(***************************************************************************)
C19_CycleCentersMatch ==
    hist.last = "cycle" =>
        /\ NumEq(ScreenX(Matches[activeResultIndex + 1]), centerX(data[1]))
        /\ NumEq(ScreenY(Matches[activeResultIndex + 1]), centerY(data[1]))

(***************************************************************************)
(* C23: in every reachable state the current match index is -1 or a valid  *)
(* index into the current match sequence, and when it is not -1 the focus  *)
(* target is the id of the match at that index.                            *)
(***************************************************************************)
C23_IndexSelectsFocus ==
    activeResultIndex # -1 =>
        /\ activeResultIndex >= 0
        /\ activeResultIndex < Len(Matches)
        /\ activePinId = Some(Matches[activeResultIndex + 1].id)

(***************************************************************************)
(* C24: whenever a dataset is loaded and the focus target is not none, the *)
(* focus target is the id of a point of the loaded dataset; and a step     *)
(* that replaces the dataset leaves no focus target.                       *)
(***************************************************************************)
C24_FocusInDataset ==
    (data # Null /\ activePinId # Null) => find(data[1].nails, activePinId[1]) # 0

C24_ReplacementStep == (data' # Null /\ data' # data) => activePinId' = Null

C24_FocusIsOfLoadedDataset == []C24_FocusInDataset /\ [][C24_ReplacementStep]_vars

\* a second dataset has replaced the first while the view was focused (zoom 10
\* is reached by the center effect only), and no focus target is left
C24_Witness ==
    /\ hist.last = "loaded"
    /\ hist.loads = 2
    /\ data # Null
    /\ zoom = FocusZoom
    /\ activePinId = Null

(***************************************************************************)
(* C25: when two loads are requested before either has completed, then in  *)
(* every order of completion, once both have completed the dataset is the  *)
(* one of the load requested last if that load parsed, and the error       *)
(* displayed, if any, is the error of the load requested last.             *)
(***************************************************************************)
\* both of two overlapping loads have completed
BothCompleted == hist.latest # Null /\ hist.loads = 2 /\ pending = {}

C25_LastRequestedLoadWins ==
    BothCompleted =>
        LET result == ParseOf[hist.latest[1]]
        IN  /\ result.ok => data = Some(result)
            /\ error # Null => (~result.ok /\ error = Some(result.error))

(***************************************************************************)
(* C21: when several points of the dataset share an id, the focus resolves *)
(* to the first of them in dataset order: after a cycle command whose      *)
(* match is a later point with the id of an earlier one, the viewport is   *)
(* centered on the first point with that id.                               *)
(***************************************************************************)
\* the points of the loaded dataset that have the id of the focus target
SameIdPoints == {i \in 1..Len(data[1].nails) : data[1].nails[i].id = activePinId[1]}

C21_DuplicateIdCentersFirst ==
    (/\ hist.last = "cycle"
     /\ Cardinality(SameIdPoints) > 1
     /\ Matches[activeResultIndex + 1] # FocusPin) =>
        /\ \A i \in SameIdPoints : find(data[1].nails, activePinId[1]) <= i
        /\ NumEq(ScreenX(FocusPin), centerX(data[1]))
        /\ NumEq(ScreenY(FocusPin), centerY(data[1]))

(***************************************************************************)
(* C20: a change of the query text, a change of the search mode and a      *)
(* cycle command with no match leave zoom and offset as they are; and no   *)
(* viewport or search event changes the loaded dataset: it changes only    *)
(* when a load replaces it or when it is closed.                           *)
(***************************************************************************)
C20_SearchKeepsViewAndData ==
    [][/\ (\/ searchQuery' # searchQuery /\ hist'.last # "loaded"
           \/ searchMode' # searchMode
           \/ hist'.last = "cycleEmpty") => (zoom' = zoom /\ offset' = offset)
       /\ (data # Null /\ data' # data) => (hist'.last = "loaded" \/ data' = Null)]_vars

\* the query was changed after a focus, no zoom step was taken, and the view is
\* where the focus put it
C20_Witness ==
    /\ hist.k = 0
    /\ hist.budget = AppViewOps
    /\ zoom = FocusZoom
    /\ offset # DefaultOffset
    /\ activePinId # Null

=============================================================================
